---- MODULE Spec2Model ----
(***************************************************************************)
(* Model of quicksilver-roguelike (src/src/main.rs): the scene built by    *)
(* Game::new, the host loop started by main, and the per-frame compositor  *)
(* Game::draw with its four lazily loaded assets.                          *)
(*                                                                         *)
(* The font collaborator (Font::load, Font::render) is the environment:    *)
(* whether a load is finished, whether it fails, and the size of the image *)
(* a render returns are chosen nondeterministically.  The window's clear   *)
(* and draw calls are taken to succeed; they are recorded in `frame`.      *)
(* The host loop calls update and draw in turn and stops at the first      *)
(* error or panic, so an asset whose future failed is not executed again.  *)
(***************************************************************************)
EXTENDS Integers, Sequences, FiniteSets, TLC

VARIABLES
  assets,            \* Game.title, .mononoki_font_info, .square_font_info, .tileset
  map_size,          \* Game.map_size
  map,               \* Game.map
  entities,          \* Game.entities
  player_entity_id,  \* Game.player_entity_id (0-based, as in the source)
  tile_size_px,      \* Game.tile_size_px
  phase,             \* host loop position: "update" or "draw" is called next
  status,            \* "running", "panic" (a panic inside draw) or
                     \* "unhandled_error" (draw returned Err to the host loop)
  frames,            \* number of calls of draw so far
  frame,             \* draw operations issued on the window by the last draw
  result,            \* what the last draw returned: "none", "Ok", "Err", "Panic"
  layers,            \* per draw step of the last draw: "drawn", "skipped",
                     \* "error", "panic" or "unreached"
  polls,             \* per asset: number of polls of its producer future
  invocations,       \* per asset: number of consumer closure invocations
  consumed,          \* per asset: set of values handed to its consumers
  first_poll,        \* per asset: kind of the first poll's outcome, or "none"
  failure,           \* per asset: collaborator failure hit, or "none"
  gm_size,           \* generate_map: argument `size`
  gm_map,            \* generate_map: returned vector
  gm_pc              \* generate_map: "call" before, "done" after the call

gamevars == <<assets, map_size, map, entities, player_entity_id, tile_size_px>>
hostvars == <<phase, status, frames>>
obsvars == <<frame, result, layers, polls, invocations, consumed, first_poll, failure>>
gmvars == <<gm_size, gm_map, gm_pc>>
vars == <<gamevars, hostvars, obsvars, gmvars>>

----------------------------------------------------------------------------
(* Bounds of the model *)

\* frames drawn before the host loop is cut off
MaxFrames == 3
\* largest width and height handed to generate_map
MaxDim == 8

----------------------------------------------------------------------------
(* generate_map *)

Tile(x, y, glyph) == [pos |-> <<x, y>>, glyph |-> glyph, color |-> "BLACK"]

\* mutant of TileGlyph: the far border is tested one cell too far
TileGlyphOffByOne(x, y, width, height) ==
  IF x = 0 \/ x = width \/ y = 0 \/ y = height THEN "#" ELSE "."

\* the glyph chosen for cell (x, y): '.' unless the cell is on the border
TileGlyph(x, y, width, height) ==
  IF x = 0 \/ x = width - 1 \/ y = 0 \/ y = height - 1 THEN "#" ELSE "."

RECURSIVE MapColumn(_, _, _, _)
\* inner loop `for y in 0..height` of column x, from row y on
MapColumn(x, y, width, height) ==
  IF y >= height THEN <<>>
  ELSE <<Tile(x, y, TileGlyph(x, y, width, height))>>
         \o MapColumn(x, y + 1, width, height)

RECURSIVE MapColumns(_, _, _)
\* outer loop `for x in 0..width`, from column x on
MapColumns(x, width, height) ==
  IF x >= width THEN <<>>
  ELSE MapColumn(x, 0, width, height) \o MapColumns(x + 1, width, height)

generate_map(size) == MapColumns(0, size[1], size[2])

----------------------------------------------------------------------------
(* generate_entities and the scene of Game::new *)

Entity(x, y, glyph, color, hp, max_hp) ==
  [pos |-> <<x, y>>, glyph |-> glyph, color |-> color, hp |-> hp, max_hp |-> max_hp]

generate_entities ==
  << Entity(9, 6, "g", "RED", 1, 1),
     Entity(2, 4, "g", "RED", 1, 1),
     Entity(7, 5, "%", "PURPLE", 0, 0),
     Entity(4, 8, "%", "PURPLE", 0, 0) >>

\* the entity "player" pushed by Game::new
PlayerEntity == Entity(5, 3, "@", "BLUE", 3, 5)

\* mutant of game_glyphs: the floor glyph is left out of the rendered strip
game_glyphs_no_floor == <<"#", "@", "g", "%">>

\* `let game_glyphs = "#@g.%"`
game_glyphs == <<"#", "@", "g", ".", "%">>

\* run::<Game>(.., Vector::new(800, 600), ..): window.screen_size()
screen_size == <<800, 600>>

\* `let map_offset_px = Vector::new(50, 120)`
map_offset_px == <<50, 120>>

----------------------------------------------------------------------------
(* The assets: Asset::new(Font::load(..).and_then(..)) *)

AssetIds == {"title", "mononoki_font_info", "square_font_info", "tileset"}

EmptyTiles == [g \in {} |-> <<0, 0, 0, 0>>]

\* an image of w x h pixels; for the tileset, `tiles` maps a glyph to the
\* region <<x, y, w, h>> of the strip its sub-image views
Value(w, h, tiles) == [w |-> w, h |-> h, tiles |-> tiles]
NoValue == Value(0, 0, EmptyTiles)

\* Asset::new: AssetData::Loading(future), the future not polled yet
NewAsset == [state |-> "Pending", value |-> NoValue, error |-> "none"]

\* images Font::render may return for each text (the font decides the size)
RenderedImages(a) ==
  CASE a = "title" -> {Value(600, 72, EmptyTiles), Value(640, 80, EmptyTiles)}
    [] a = "mononoki_font_info" -> {Value(620, 20, EmptyTiles)}
    [] a = "square_font_info" -> {Value(500, 20, EmptyTiles)}
    [] a = "tileset" -> {Value(96, 24, EmptyTiles), Value(120, 24, EmptyTiles),
                         Value(144, 24, EmptyTiles)}

\* what the font collaborator does when an asset's future is polled
PollInputs(a) ==
  {[load |-> "NotReady", render |-> "Ok", img |-> NoValue],
   [load |-> "Err", render |-> "Ok", img |-> NoValue],
   [load |-> "Ok", render |-> "Err", img |-> NoValue]}
  \cup {[load |-> "Ok", render |-> "Ok", img |-> i] : i \in RenderedImages(a)}

\* the future is not polled
Idle == [load |-> "NotReady", render |-> "Ok", img |-> NoValue]

NotReady == [kind |-> "NotReady", value |-> NoValue, error |-> "none"]
Ready(v) == [kind |-> "Ready", value |-> v, error |-> "none"]
Err(e) == [kind |-> "Err", value |-> NoValue, error |-> e]
Panic == [kind |-> "Panic", value |-> NoValue, error |-> "none"]

\* Font::load(font_mononoki).and_then(|font| font.render(text, style))
CaptionProducer(io) ==
  CASE io.load = "NotReady" -> NotReady
    [] io.load = "Err" -> Err("LoadError")
    [] io.load = "Ok" /\ io.render = "Err" -> Err("RenderError")
    [] OTHER -> Ready(io.img)

\* HashMap::insert: a later insertion of the same key replaces the earlier one
Insert(m, k, v) == [x \in DOMAIN m \cup {k} |-> IF x = k THEN v ELSE m[x]]

RECURSIVE BuildTileset(_, _, _, _)
\* `for (index, glyph) in game_glyphs.chars().enumerate()`, index is 0-based;
\* Image::subimage checks no bounds
BuildTileset(glyphs, index, size, tileset) ==
  IF index >= Len(glyphs) THEN tileset
  ELSE BuildTileset(glyphs, index + 1, size,
         Insert(tileset, glyphs[index + 1], <<index * size[1], 0, size[1], size[2]>>))

\* Font::load(font_square).and_then(move |text| { render(..).expect(..); .. })
TilesetProducer(io, size) ==
  CASE io.load = "NotReady" -> NotReady
    [] io.load = "Err" -> Err("LoadError")
    [] io.load = "Ok" /\ io.render = "Err" -> Panic
    [] OTHER -> Ready(Value(io.img.w, io.img.h,
                            BuildTileset(game_glyphs, 0, size, EmptyTiles)))

Producer(a, io, size) ==
  IF a = "tileset" THEN TilesetProducer(io, size) ELSE CaptionProducer(io)

\* the collaborator failure an input stands for
FailureOf(io) ==
  CASE io.load = "Err" -> "LoadError"
    [] io.load = "Ok" /\ io.render = "Err" -> "RenderError"
    [] OTHER -> "none"

\* Asset::update on an asset that is not Loaded: the future is polled; an
\* error of the future is returned and the asset keeps the completed future;
\* polling a completed future again panics
ExecuteLoading(asset, out) ==
  CASE asset.state = "Failed" ->
         [asset |-> asset, res |-> "Panic", ran |-> FALSE, polled |-> TRUE]
    [] asset.state = "Pending" /\ out.kind = "NotReady" ->
         [asset |-> asset, res |-> "Ok", ran |-> FALSE, polled |-> TRUE]
    [] asset.state = "Pending" /\ out.kind = "Ready" ->
         [asset |-> [state |-> "Ready", value |-> out.value, error |-> "none"],
          res |-> "Ok", ran |-> TRUE, polled |-> TRUE]
    [] asset.state = "Pending" /\ out.kind = "Err" ->
         [asset |-> [state |-> "Failed", value |-> NoValue, error |-> out.error],
          res |-> "Err", ran |-> FALSE, polled |-> TRUE]
    [] OTHER ->
         [asset |-> asset, res |-> "Panic", ran |-> FALSE, polled |-> TRUE]

\* mutant of AssetExecute: a Loaded asset polls its producer again
AssetExecuteRepoll(asset, out) ==
  IF asset.state = "Ready"
  THEN [asset |-> asset, res |-> "Ok", ran |-> TRUE, polled |-> TRUE]
  ELSE ExecuteLoading(asset, out)

\* mutant of AssetExecute: a Loaded asset is used once and then loaded anew
AssetExecuteForget(asset, out) ==
  IF asset.state = "Ready"
  THEN [asset |-> NewAsset, res |-> "Ok", ran |-> FALSE, polled |-> FALSE]
  ELSE ExecuteLoading(asset, out)

\* asset.execute(consumer): a Loaded asset runs the consumer on the cached
\* value without polling; any other asset is polled first, and the consumer
\* runs if that poll made it Loaded
AssetExecute(asset, out) ==
  IF asset.state = "Ready"
  THEN [asset |-> asset, res |-> "Ok", ran |-> TRUE, polled |-> FALSE]
  ELSE ExecuteLoading(asset, out)

----------------------------------------------------------------------------
(* Game::draw *)

\* a window.clear or window.draw call: destination rectangle (pos, size),
\* the region of the source image (img), and a tint or fill colour. The
\* width actually drawn is size[1] * scale[1] / scale[2], a float division.
Op(kind, pos, size, img, tint, scale) ==
  [kind |-> kind, pos |-> pos, size |-> size, img |-> img, tint |-> tint,
   scale |-> scale]

\* window.clear(Color::WHITE)
ClearOp == Op("clear", <<0, 0>>, screen_size, <<>>, "WHITE", <<1, 1>>)

\* image.area().with_center((window.screen_size().x as i32 / 2, 40))
TitleOp(image) ==
  Op("title", <<(screen_size[1] \div 2) - (image.w \div 2), 40 - (image.h \div 2)>>,
     <<image.w, image.h>>, <<0, 0, image.w, image.h>>, "none", <<1, 1>>)

\* image.area().translate((2, window.screen_size().y as i32 - 60))
MononokiOp(image) ==
  Op("mononoki_font_info", <<2, screen_size[2] - 60>>, <<image.w, image.h>>,
     <<0, 0, image.w, image.h>>, "none", <<1, 1>>)

\* image.area().translate((2, window.screen_size().y as i32 - 30))
SquareOp(image) ==
  Op("square_font_info", <<2, screen_size[2] - 30>>, <<image.w, image.h>>,
     <<0, 0, image.w, image.h>>, "none", <<1, 1>>)

\* Rectangle::new(map_offset_px + pos.times(tile_size_px), image.area().size()),
\* Blended(&image, color)
GlyphOp(kind, thing, region, size) ==
  Op(kind,
     <<map_offset_px[1] + thing.pos[1] * size[1],
       map_offset_px[2] + thing.pos[2] * size[2]>>,
     <<region[3], region[4]>>, region, thing.color, <<1, 1>>)

\* `for tile in map.iter()` / `for entity in entities.iter()`: one draw per
\* thing whose glyph the tileset holds, in the order of the vector; a glyph
\* the tileset does not hold is skipped
GlyphOps(kind, things, tileset, size) ==
  LET found == SelectSeq(things, LAMBDA t : t.glyph \in DOMAIN tileset.tiles)
  IN [i \in 1..Len(found) |->
        GlyphOp(kind, found[i], tileset.tiles[found[i].glyph], size)]

\* the two rectangles of the health bar
HealthBarOps(g) ==
  LET full_health_width_px == 100
      player == g.entities[g.player_entity_id + 1]
      health_bar_pos_px ==
        <<map_offset_px[1] + g.map_size[1] * g.tile_size_px[1], map_offset_px[2]>>
  IN << Op("health_full", health_bar_pos_px,
           <<full_health_width_px, g.tile_size_px[2]>>, <<>>, "RED_ALPHA_0.5", <<1, 1>>),
        Op("health_current", health_bar_pos_px,
           <<full_health_width_px, g.tile_size_px[2]>>, <<>>, "RED",
           <<player.hp, player.max_hp>>) >>

\* mutant of Steps: the entities are drawn before the map
StepsEntitiesFirst ==
  <<"title", "mononoki_font_info", "square_font_info", "entities", "map">>

\* the asset.execute calls of draw, in source order
Steps == <<"title", "mononoki_font_info", "square_font_info", "map", "entities">>

\* the asset a step executes
StepAsset(step) == IF step \in {"map", "entities"} THEN "tileset" ELSE step

\* the closure a step hands to execute
ConsumerOps(step, value, g) ==
  CASE step = "title" -> <<TitleOp(value)>>
    [] step = "mononoki_font_info" -> <<MononokiOp(value)>>
    [] step = "square_font_info" -> <<SquareOp(value)>>
    [] step = "map" -> GlyphOps("tile", g.map, value, g.tile_size_px)
    [] step = "entities" -> GlyphOps("entity", g.entities, value, g.tile_size_px)

\* how a step ended
LayerOf(r) ==
  CASE r.res = "Err" -> "error"
    [] r.res = "Panic" -> "panic"
    [] r.ran -> "drawn"
    [] OTHER -> "skipped"

\* `self.<asset>.execute(|image| { .. })?` of step i on the draw state d:
\* the record of the Game's assets, the operations issued so far and the
\* bookkeeping of polls and consumer invocations
ExecuteStep(d, i, io, g) ==
  LET step == Steps[i]
      a == StepAsset(step)
      r == AssetExecute(d.assets[a], Producer(a, io, g.tile_size_px))
      first == r.polled /\ d.polls[a] = 0
  IN [ assets |-> [d.assets EXCEPT ![a] = r.asset],
       ops |-> IF r.ran THEN d.ops \o ConsumerOps(step, r.asset.value, g) ELSE d.ops,
       res |-> r.res,
       layers |-> [d.layers EXCEPT ![step] = LayerOf(r)],
       polls |-> [d.polls EXCEPT ![a] = IF r.polled THEN @ + 1 ELSE @],
       invocations |-> [d.invocations EXCEPT ![a] = IF r.ran THEN @ + 1 ELSE @],
       consumed |-> [d.consumed EXCEPT ![a] = IF r.ran THEN @ \cup {r.asset.value} ELSE @],
       first_poll |-> [d.first_poll EXCEPT ![a] =
                         IF first THEN Producer(a, io, g.tile_size_px).kind ELSE @],
       failure |-> [d.failure EXCEPT ![a] =
                      IF r.polled /\ FailureOf(io) # "none" THEN FailureOf(io) ELSE @] ]

RECURSIVE RunSteps(_, _, _, _)
\* the steps from i on; `?` returns from draw at the first step that fails
RunSteps(d, i, ios, g) ==
  IF i > Len(Steps) THEN [d EXCEPT !.ops = @ \o HealthBarOps(g), !.res = "Ok"]
  ELSE LET n == ExecuteStep(d, i, ios[i], g)
       IN IF n.res # "Ok" THEN n ELSE RunSteps(n, i + 1, ios, g)

----------------------------------------------------------------------------
(* Game::new, the host loop, and the actions *)

\* the fields Game::new fills in, for the entity it pushes as the player;
\* nothing about the entity is checked
NewGame(player) ==
  LET size == <<15, 15>>
  IN [ assets |-> [a \in AssetIds |-> NewAsset],
       map_size |-> size,
       map |-> generate_map(size),
       entities |-> Append(generate_entities, player),
       player_entity_id |-> Len(generate_entities),
       tile_size_px |-> <<24, 24>> ]

\* the Game as a record
Game ==
  [ assets |-> assets, map_size |-> map_size, map |-> map, entities |-> entities,
    player_entity_id |-> player_entity_id, tile_size_px |-> tile_size_px ]

\* the fields of the Game that Game::new returned
InitGame(g) ==
  /\ assets = g.assets
  /\ map_size = g.map_size
  /\ map = g.map
  /\ entities = g.entities
  /\ player_entity_id = g.player_entity_id
  /\ tile_size_px = g.tile_size_px

\* the host loop has called neither update nor draw
InitHost ==
  /\ phase = "update"
  /\ status = "running"
  /\ frames = 0
  /\ frame = <<>>
  /\ result = "none"
  /\ layers = [s \in {Steps[i] : i \in 1..Len(Steps)} |-> "unreached"]
  /\ polls = [a \in AssetIds |-> 0]
  /\ invocations = [a \in AssetIds |-> 0]
  /\ consumed = [a \in AssetIds |-> {}]
  /\ first_poll = [a \in AssetIds |-> "none"]
  /\ failure = [a \in AssetIds |-> "none"]

InitWith(g) ==
  /\ InitGame(g)
  /\ InitHost
  /\ gm_size = g.map_size
  /\ gm_map = g.map
  /\ gm_pc = "done"

\* run::<Game>: the state after Game::new returned Ok(Self)
Init == InitWith(NewGame(PlayerEntity))

\* mutant of Update: update damages the player
UpdateHurtsPlayer ==
  /\ status = "running"
  /\ phase = "update"
  /\ phase' = "draw"
  /\ entities' = [entities EXCEPT ![player_entity_id + 1].hp = 0]
  /\ UNCHANGED <<assets, map_size, map, player_entity_id, tile_size_px,
                 status, frames, obsvars, gmvars>>

\* Game::update: returns Ok(()) and touches nothing; the host draws next
Update ==
  /\ status = "running"
  /\ phase = "update"
  /\ phase' = "draw"
  /\ UNCHANGED <<gamevars, status, frames, obsvars, gmvars>>

\* the inputs of a poll of asset a, if draw can poll it in this frame
InputsOf(a) == IF assets[a].state = "Pending" THEN PollInputs(a) ELSE {Idle}

\* what the host loop does with the value draw returned: an Err goes to the
\* default State::handle_error, which panics
HostStatus(res) ==
  CASE res = "Ok" -> "running"
    [] res = "Err" -> "unhandled_error"
    [] OTHER -> "panic"

\* the draw state on entry: window.clear(Color::WHITE) is issued first
DrawEntry ==
  [ assets |-> assets, ops |-> <<ClearOp>>, res |-> "Ok",
    layers |-> [s \in DOMAIN layers |-> "unreached"],
    polls |-> polls, invocations |-> invocations, consumed |-> consumed,
    first_poll |-> first_poll, failure |-> failure ]

\* one call of Game::draw by the host loop
Draw ==
  /\ status = "running"
  /\ phase = "draw"
  /\ frames < MaxFrames
  /\ \E io1 \in InputsOf("title"), io2 \in InputsOf("mononoki_font_info"),
        io3 \in InputsOf("square_font_info"), io4 \in InputsOf("tileset") :
       \E io5 \in (IF assets["tileset"].state = "Pending" /\ io4.load = "NotReady"
                   THEN PollInputs("tileset") ELSE {Idle}) :
         \E d \in {RunSteps(DrawEntry, 1, <<io1, io2, io3, io4, io5>>, Game)} :
            /\ assets' = d.assets
            /\ frame' = d.ops
            /\ result' = d.res
            /\ layers' = d.layers
            /\ polls' = d.polls
            /\ invocations' = d.invocations
            /\ consumed' = d.consumed
            /\ first_poll' = d.first_poll
            /\ failure' = d.failure
            /\ status' = HostStatus(d.res)
  /\ frames' = frames + 1
  /\ phase' = "update"
  /\ UNCHANGED <<map_size, map, entities, player_entity_id, tile_size_px, gmvars>>

Next == Update \/ Draw

Spec == Init /\ [][Next]_vars

----------------------------------------------------------------------------
(* generate_map on its own, for sizes 0..MaxDim *)

InitMap ==
  /\ InitGame(NewGame(PlayerEntity))
  /\ InitHost
  /\ gm_size \in (0..MaxDim) \X (0..MaxDim)
  /\ gm_map = <<>>
  /\ gm_pc = "call"

\* a call of generate_map(gm_size)
GenerateMap ==
  /\ gm_pc = "call"
  /\ gm_map' = generate_map(gm_size)
  /\ gm_pc' = "done"
  /\ UNCHANGED <<gamevars, hostvars, obsvars, gm_size>>

NextMap == GenerateMap

SpecMap == InitMap /\ [][NextMap]_vars

----------------------------------------------------------------------------
(* Game::new for other player entities than the literal one *)

PlayerCandidates ==
  {Entity(5, 3, "@", "BLUE", hp, max_hp) : hp \in {0, 3}, max_hp \in {0, 5}}

InitScenes == \E player \in PlayerCandidates : InitWith(NewGame(player))

SpecScenes == InitScenes /\ [][Next]_vars

----------------------------------------------------------------------------
(* Properties *)

StepSet == {Steps[i] : i \in 1..Len(Steps)}
KindCount(kind) == Cardinality({i \in DOMAIN frame : frame[i].kind = kind})
Player == entities[player_entity_id + 1]

\* the kinds of draw operation in the order the compositor is to issue them
Rank(kind) ==
  CASE kind = "clear" -> 1
    [] kind = "title" -> 2
    [] kind = "mononoki_font_info" -> 3
    [] kind = "square_font_info" -> 4
    [] kind = "tile" -> 5
    [] kind = "entity" -> 6
    [] kind = "health_full" -> 7
    [] kind = "health_current" -> 8

\* C1: an asset whose producer succeeded on its first poll has been polled
\* exactly once however many frames were drawn, every consumer invocation got
\* the one cached value, and in every frame that draw completed each of the
\* asset's steps (one for a caption, two for the tileset) ran its consumer.
C1_ProducerOnceSameValue ==
  \A a \in AssetIds :
    first_poll[a] = "Ready" =>
      /\ polls[a] = 1
      /\ assets[a].state = "Ready"
      /\ invocations[a] >= 1
      /\ consumed[a] = {assets[a].value}
      /\ result = "Ok" => \A s \in StepSet : StepAsset(s) = a => layers[s] = "drawn"

\* C1 witness: title and tileset loaded at their first poll and were used in
\* at least two frames (the tileset by the map step and the entity step).
C1_Witness ==
  /\ frames >= 2
  /\ first_poll["title"] = "Ready" /\ invocations["title"] >= 2
  /\ first_poll["tileset"] = "Ready" /\ invocations["tileset"] >= 4

\* C2: every draw returns Ok, starts with the clear, ends with the two
\* health-bar rectangles, reaches every step, and holds a layer's draws only
\* if that layer's asset is Ready -- whatever the states of the four assets.
C2_FailedAssetNeverAbortsFrame ==
  frames >= 1 =>
    /\ result = "Ok"
    /\ status = "running"
    /\ frame[1].kind = "clear"
    /\ KindCount("health_full") = 1 /\ KindCount("health_current") = 1
    /\ \A s \in StepSet :
         /\ layers[s] # "unreached"
         /\ layers[s] = "drawn" => assets[StepAsset(s)].state = "Ready"

\* C3: the operations of a frame are in the order clear, title, Mononoki
\* caption, Square caption, tiles, entities, health-bar background, current
\* health; an entity is drawn after the tile of the cell it stands on.
C3_FixedOrder ==
  /\ \A i \in 1..(Len(frame) - 1) : Rank(frame[i].kind) <= Rank(frame[i + 1].kind)
  /\ \A k \in {"clear", "title", "mononoki_font_info", "square_font_info",
               "health_full", "health_current"} : KindCount(k) <= 1
  /\ \A i \in {k \in DOMAIN frame : frame[k].kind = "entity"} :
       \A j \in DOMAIN frame :
         (frame[j].kind = "tile" /\ frame[j].pos = frame[i].pos) => j < i

\* C3 witness: a frame with all eight kinds of operation, in which the player
\* is drawn on a cell that also holds a tile.
C3_Witness ==
  /\ \A k \in {"clear", "title", "mononoki_font_info", "square_font_info", "tile",
               "entity", "health_full", "health_current"} : KindCount(k) >= 1
  /\ \E i \in {k \in DOMAIN frame : frame[k].kind = "entity"} :
       /\ frame[i].tint = "BLUE"
       /\ \E j \in DOMAIN frame :
            frame[j].kind = "tile" /\ frame[j].pos = frame[i].pos

\* C4: a draw of the default scene in which all five steps ran issues 1 clear,
\* 1 title, 2 captions, 225 tiles, 5 entities and 2 health-bar rectangles,
\* 236 operations in all.
C4_DefaultSceneDrawCount ==
  (\A s \in StepSet : layers[s] = "drawn") =>
    /\ KindCount("clear") = 1
    /\ KindCount("title") = 1
    /\ KindCount("mononoki_font_info") + KindCount("square_font_info") = 2
    /\ KindCount("tile") = 225
    /\ KindCount("entity") = 5
    /\ KindCount("health_full") + KindCount("health_current") = 2
    /\ Len(frame) = 236

\* C4 witness: a frame of the default scene drawn with all four assets Ready.
C4_Witness ==
  /\ frames >= 1
  /\ \A s \in StepSet : layers[s] = "drawn"
  /\ \A a \in AssetIds : assets[a].state = "Ready"
  /\ Len(map) = 225 /\ Len(entities) = 5 /\ Player.hp = 3 /\ Player.max_hp = 5

C7_ShortStripRejected ==
  assets["tileset"].state = "Ready" =>
    LET ts == assets["tileset"].value
    IN /\ ts.w >= Len(game_glyphs) * tile_size_px[1]
       /\ \A g \in DOMAIN ts.tiles : ts.tiles[g][1] + ts.tiles[g][3] <= ts.w

\* C8: a font load or render failure of any asset leaves that asset Failed
\* with the error as its value, and the process has not panicked.
C8_FontFailureBecomesFailedAsset ==
  \A a \in AssetIds :
    failure[a] # "none" =>
      /\ assets[a].state = "Failed"
      /\ assets[a].error = failure[a]
      /\ status # "panic"

\* C9: for width, height >= 3 generate_map returns width*height tiles, one
\* per cell, '#' exactly on the border and '.' elsewhere, 2*width+2*height-4
\* walls, all black.
C9_GenerateMap ==
  (gm_pc = "done" /\ gm_size[1] >= 3 /\ gm_size[2] >= 3) =>
    LET width == gm_size[1]
        height == gm_size[2]
    IN /\ Len(gm_map) = width * height
       /\ \A x \in 0..(width - 1) : \A y \in 0..(height - 1) :
            Cardinality({i \in DOMAIN gm_map : gm_map[i].pos = <<x, y>>}) = 1
       /\ \A i \in DOMAIN gm_map :
            /\ gm_map[i].color = "BLACK"
            /\ gm_map[i].glyph \in {"#", "."}
            /\ gm_map[i].glyph = "#" <=>
                 \/ gm_map[i].pos[1] = 0 \/ gm_map[i].pos[1] = width - 1
                 \/ gm_map[i].pos[2] = 0 \/ gm_map[i].pos[2] = height - 1
       /\ Cardinality({i \in DOMAIN gm_map : gm_map[i].glyph = "#"})
            = 2 * width + 2 * height - 4

\* C9 witness: generate_map has returned for a grid that is not square.
C9_Witness ==
  /\ gm_pc = "done" /\ gm_size = <<4, 3>>
  /\ Len(gm_map) = 12
  /\ \E i \in DOMAIN gm_map : gm_map[i].glyph = "."

\* the scene the source's literals describe
DefaultScene ==
  /\ map_size = <<15, 15>>
  /\ tile_size_px = <<24, 24>>
  /\ Len(map) = 225
  /\ \A i \in DOMAIN map :
       /\ map[i].pos = <<(i - 1) \div 15, (i - 1) % 15>>
       /\ map[i].color = "BLACK"
       /\ map[i].glyph = (IF map[i].pos[1] \in {0, 14} \/ map[i].pos[2] \in {0, 14}
                          THEN "#" ELSE ".")
  /\ entities = << [pos |-> <<9, 6>>, glyph |-> "g", color |-> "RED", hp |-> 1, max_hp |-> 1],
                   [pos |-> <<2, 4>>, glyph |-> "g", color |-> "RED", hp |-> 1, max_hp |-> 1],
                   [pos |-> <<7, 5>>, glyph |-> "%", color |-> "PURPLE", hp |-> 0, max_hp |-> 0],
                   [pos |-> <<4, 8>>, glyph |-> "%", color |-> "PURPLE", hp |-> 0, max_hp |-> 0],
                   [pos |-> <<5, 3>>, glyph |-> "@", color |-> "BLUE", hp |-> 3, max_hp |-> 5] >>
  /\ player_entity_id = 4

\* C10: update and draw leave the scene as setup built it, the player index
\* stays a valid index, and a draw that finds the assets as the previous draw
\* left them, with every step ending as before, issues the same operations.
C10_SceneReadOnly ==
  /\ [](DefaultScene /\ player_entity_id + 1 \in DOMAIN entities)
  /\ [][(map' = map /\ entities' = entities /\ map_size' = map_size
           /\ tile_size_px' = tile_size_px /\ player_entity_id' = player_entity_id)
        /\ ((frames >= 1 /\ frames' = frames + 1 /\ assets' = assets
               /\ layers' = layers) => frame' = frame)]_vars

\* C10 witness: two frames drawn with all four assets Ready from the first
\* poll on, with an update between them.
C10_Witness ==
  /\ frames >= 2
  /\ result = "Ok"
  /\ \A a \in AssetIds : assets[a].state = "Ready" /\ polls[a] = 1

====
